---- MODULE Spec2Model ----
(***************************************************************************)
(* ctwrap: SimulationHandler (task variation, run_serial, run_parallel),   *)
(* Simulation._save / _save_metadata and the multiprocessing worker of     *)
(* src/ctwrap/simulation.py, with from_dict / _parse_output, configuration *)
(* and run_task.                                                           *)
(*                                                                         *)
(* The dicts and lists of a configuration are objects of a heap, so that   *)
(* deepcopy and the assignments of replace_entry act on identities; names  *)
(* given to _parse_output are sequences of words, "." and "/".             *)
(*                                                                         *)
(* Task ids, which the code formats, compares and sorts, are sequences of   *)
(* one-character strings, so that '{}_{}'.format and list.sort are         *)
(* computed character by character; output names and formats are sequences *)
(* of the pieces that "." + format and '.'.join put together.  The two     *)
(* multiprocessing queues are ideal: get_nowait on tasks_to_accomplish     *)
(* returns the oldest item and raises queue.Empty exactly when no item is  *)
(* left, put never blocks and a worker process ends without waiting for   *)
(* the items it put to be consumed.  A call of run_serial, run_parallel or *)
(* run_task may follow any finished call, on the artifact the earlier      *)
(* calls left.                                                             *)
(***************************************************************************)
EXTENDS Naturals, Sequences, FiniteSets

\* ------------------------------------------------------------------ bounds
MaxValues == 2
MaxWorkers == 2
MaxConfigs == 2

\* ------------------------------------------------------ python values, str
\* A scalar of the variation's `values`: an int, a float with an integral
\* value, or a str.
IntV(k) == [t |-> "int", n |-> k, s |-> <<>>]
FloatV(k) == [t |-> "float", n |-> k, s |-> <<>>]
StrV(chars) == [t |-> "str", n |-> 0, s |-> chars]

Values == {IntV(1), IntV(2), IntV(10), StrV(<<"1">>), FloatV(1)}

DigitChar(d) ==
    CASE d = 0 -> "0" [] d = 1 -> "1" [] d = 2 -> "2" [] d = 3 -> "3"
      [] d = 4 -> "4" [] d = 5 -> "5" [] d = 6 -> "6" [] d = 7 -> "7"
      [] d = 8 -> "8" [] d = 9 -> "9"

RECURSIVE Digits(_)
Digits(k) ==
    IF k < 10 THEN <<DigitChar(k)>>
    ELSE Digits(k \div 10) \o <<DigitChar(k % 10)>>

\* '{}'.format(v)
PyStr(v) ==
    CASE v.t = "int" -> Digits(v.n)
      [] v.t = "float" -> Digits(v.n) \o <<".", "0">>
      [] v.t = "str" -> v.s

\* ord(c) for the characters that occur
Ord(c) ==
    CASE c = "." -> 46 [] c = "0" -> 48 [] c = "1" -> 49 [] c = "2" -> 50
      [] c = "3" -> 51 [] c = "4" -> 52 [] c = "5" -> 53 [] c = "6" -> 54
      [] c = "7" -> 55 [] c = "8" -> 56 [] c = "9" -> 57 [] c = "_" -> 95
      [] c = "a" -> 97 [] c = "b" -> 98 [] c = "x" -> 120

\* a < b for str a, b
RECURSIVE StrLess(_, _)
StrLess(a, b) ==
    IF b = <<>> THEN FALSE
    ELSE IF a = <<>> THEN TRUE
    ELSE IF Head(a) = Head(b) THEN StrLess(Tail(a), Tail(b))
    ELSE Ord(Head(a)) < Ord(Head(b))

\* ---------------------------------------------------------- task registry
\* '{}_{}'.format(e, v)
TaskId(e, v) == e \o <<"_">> \o PyStr(v)

RECURSIVE Position(_, _)
Position(seq, x) ==
    IF seq = <<>> THEN 0
    ELSE IF Head(seq) = x THEN 1
    ELSE LET p == Position(Tail(seq), x) IN IF p = 0 THEN 0 ELSE p + 1

\* SimulationHandler.tasks: the dict {'{}_{}'.format(e, v): v for v in values},
\* as the sequence of its items in insertion order (a repeated key keeps its
\* place and takes the later value).
RECURSIVE TasksOf(_, _)
TasksOf(e, values) ==
    IF values = <<>> THEN <<>>
    ELSE LET front == TasksOf(e, SubSeq(values, 1, Len(values) - 1))
             v == values[Len(values)]
             k == TaskId(e, v)
             keys == [i \in 1..Len(front) |-> front[i].id]
             p == Position(keys, k)
         IN IF p = 0 THEN Append(front, [id |-> k, value |-> v])
            ELSE [front EXCEPT ![p] = [id |-> k, value |-> v]]

\* [t for t in self.tasks]
TaskList(e, values) ==
    LET d == TasksOf(e, values) IN [i \in 1..Len(d) |-> d[i].id]

RECURSIVE Insert(_, _)
Insert(sorted, x) ==
    IF sorted = <<>> THEN <<x>>
    ELSE IF StrLess(x, Head(sorted)) THEN <<x>> \o sorted
    ELSE <<Head(sorted)>> \o Insert(Tail(sorted), x)

\* list.sort() on a list of str
RECURSIVE Sort(_)
Sort(seq) ==
    IF seq = <<>> THEN <<>>
    ELSE Insert(Sort(SubSeq(seq, 1, Len(seq) - 1)), seq[Len(seq)])

Range(seq) == {seq[i] : i \in 1..Len(seq)}

\* ------------------------------------------------------------ output spec
\* None, where the code holds None in place of a str
None == <<"<None>">>

\* supported = ('.h5', '.hdf', '.hdf5')
supported == {<<".", "h5">>, <<".", "hdf">>, <<".", "hdf5">>}

Formats == {<<"h5">>, <<"csv">>, None}

\* the output dictionary _parse_output returns for a name and a format that
\* carry no extension, no path and no leading dot
OutputOf(name, format, force) ==
    [name |-> name, path |-> None, format |-> format,
     force_overwrite |-> force,
     file_name |-> IF format = None THEN None ELSE name \o <<".">> \o format]

\* a key that a dict does not hold
Absent == <<"<absent>">>

\* os.path.split(p): the text up to the last "/" (without trailing "/"
\* unless it is all "/") and the text after it
RECURSIVE LastIndexOf(_, _)
LastIndexOf(seq, x) ==
    IF seq = <<>> THEN 0
    ELSE IF seq[Len(seq)] = x THEN Len(seq)
    ELSE LastIndexOf(SubSeq(seq, 1, Len(seq) - 1), x)

RECURSIVE RStrip(_, _)
RStrip(seq, x) ==
    IF seq # <<>> /\ seq[Len(seq)] = x
    THEN RStrip(SubSeq(seq, 1, Len(seq) - 1), x) ELSE seq

\* str.lstrip(x)
RECURSIVE LStrip(_, _)
LStrip(seq, x) ==
    IF seq # <<>> /\ Head(seq) = x THEN LStrip(Tail(seq), x) ELSE seq

PathSplit(p) ==
    LET i == LastIndexOf(p, "/")
        head == SubSeq(p, 1, i)
    IN [head |-> IF \A k \in 1..i : head[k] = "/" THEN head
                 ELSE RStrip(head, "/"),
        tail |-> SubSeq(p, i + 1, Len(p))]

\* os.path.splitext(p) for p without "/": the extension starts at the last
\* "." unless only "." precede it
SplitExt(p) ==
    LET i == LastIndexOf(p, ".")
    IN IF i > 0 /\ \E k \in 1..(i - 1) : p[k] # "."
       THEN [root |-> SubSeq(p, 1, i - 1), ext |-> SubSeq(p, i, Len(p))]
       ELSE [root |-> p, ext |-> <<>>]

\* ExtensionOverrides without the override: the declared format is kept
DeclaredWins(fformat, ext) == fformat

\* if ext in supported: fformat = ext
ExtensionOverrides(fformat, ext) ==
    IF ext \in supported THEN ext ELSE fformat

\* _parse_output(dct, fname, fpath): the dictionary it returns, or the
\* exception that leaves it; force_overwrite of the block is "True",
\* "False" or "absent"
parse_output(dct, fname, fpath) ==
    LET format0 == IF dct.format = Absent THEN <<>> ELSE dct.format
        force == dct.force_overwrite = "True"
        sp == PathSplit(fname)
        se == SplitExt(sp.tail)
        contradictory == fname # None /\ sp.head # <<>> /\ fpath # None
        fpath1 == IF fname # None /\ sp.head # <<>> THEN sp.head ELSE fpath
        fformat == IF fname # None THEN ExtensionOverrides(format0, se.ext)
                   ELSE format0
        name == IF fname # None THEN se.root ELSE dct.name
        format == IF fformat = None THEN format0
                  ELSE IF fformat # <<>> THEN LStrip(fformat, ".")
                  ELSE <<"h5">>
    IN IF contradictory THEN [err |-> "RuntimeError", out |-> None]
       ELSE IF fformat # None /\ name = Absent
       THEN [err |-> "KeyError", out |-> None]
       ELSE [err |-> "none",
             out |-> [name |-> name, path |-> fpath1, format |-> format,
                      force_overwrite |-> force,
                      file_name |-> IF fformat = None THEN None
                                    ELSE name \o <<".">> \o format]]

\* ------------------------------------------------- configuration objects
\* A dict or list of a configuration is an object of the heap, known by its
\* address (its index in the heap); a slot of a dict or of a list holds a
\* scalar (ref = 0) or the address of an object.  The slots of a list carry
\* the empty key.
NoKey == <<>>
ScalarSlot(key, v) == [key |-> key, ref |-> 0, val |-> v]
RefSlot(key, a) == [key |-> key, ref |-> a, val |-> IntV(0)]
DictObj(slots) == [kind |-> "dict", parts |-> slots]
ListObj(slots) == [kind |-> "list", parts |-> slots]

\* self._defaults is the object at address 1
Base == RefSlot(NoKey, 1)

\* {a: {b: [1, 2]}, x: 7}
DefaultsList ==
    << DictObj(<<RefSlot(<<"a">>, 2), ScalarSlot(<<"x">>, IntV(7))>>),
       DictObj(<<RefSlot(<<"b">>, 3)>>),
       ListObj(<<ScalarSlot(NoKey, IntV(1)), ScalarSlot(NoKey, IntV(2))>>) >>

\* {a: {b: 5}, x: []}
DefaultsScalar ==
    << DictObj(<<RefSlot(<<"a">>, 2), RefSlot(<<"x">>, 3)>>),
       DictObj(<<ScalarSlot(<<"b">>, IntV(5))>>),
       ListObj(<<>>) >>

\* the defaults blocks by name
DefaultsNamed(n) == IF n = "list" THEN DefaultsList ELSE DefaultsScalar

\* the addresses of the objects a slot leads to
RECURSIVE Reach(_, _)
Reach(h, slot) ==
    IF slot.ref = 0 THEN {}
    ELSE {slot.ref} \cup
         UNION {Reach(h, h[slot.ref].parts[i]) :
                    i \in 1..Len(h[slot.ref].parts)}

\* == of a configuration value of heap h1 and one of heap h2: equal scalars,
\* or containers of one kind with equal keys and equal members
RECURSIVE Same(_, _, _, _)
Same(h1, s1, h2, s2) ==
    IF s1.ref = 0 \/ s2.ref = 0
    THEN s1.ref = 0 /\ s2.ref = 0 /\ s1.val = s2.val
    ELSE LET o1 == h1[s1.ref]
             o2 == h2[s2.ref]
         IN /\ o1.kind = o2.kind
            /\ Len(o1.parts) = Len(o2.parts)
            /\ \A i \in 1..Len(o1.parts) :
                   /\ o1.parts[i].key = o2.parts[i].key
                   /\ Same(h1, o1.parts[i], h2, o2.parts[i])

\* copy.copy in place of deepcopy: a new outer container, members shared
ShallowCopy(h, slot) ==
    IF slot.ref = 0 THEN [heap |-> h, slot |-> slot]
    ELSE [heap |-> Append(h, h[slot.ref]),
          slot |-> [slot EXCEPT !.ref = Len(h) + 1]]

\* deepcopy(x): every container reachable from x is built anew
RECURSIVE deepcopy(_, _)
RECURSIVE CopyParts(_, _)
deepcopy(h, slot) ==
    IF slot.ref = 0 THEN [heap |-> h, slot |-> slot]
    ELSE LET r == CopyParts(h, h[slot.ref].parts)
         IN [heap |-> Append(r.heap, [kind |-> h[slot.ref].kind,
                                      parts |-> r.parts]),
             slot |-> [slot EXCEPT !.ref = Len(r.heap) + 1]]

\* the members of a container, deep-copied from first to last
CopyParts(h, parts) ==
    IF parts = <<>> THEN [heap |-> h, parts |-> <<>>]
    ELSE LET n == Len(parts)
             front == CopyParts(h, SubSeq(parts, 1, n - 1))
             last == deepcopy(front.heap, parts[n])
         IN [heap |-> last.heap, parts |-> Append(front.parts, last.slot)]

\* the index of the slot of a dict that carries the key, 0 when none does
RECURSIVE KeyIndex(_, _)
KeyIndex(slots, key) ==
    IF slots = <<>> THEN 0
    ELSE IF slots[Len(slots)].key = key THEN Len(slots)
    ELSE KeyIndex(SubSeq(slots, 1, Len(slots) - 1), key)

\* str.split('.') of a sequence of characters
RECURSIVE Split(_)
Split(chars) ==
    IF chars = <<>> THEN << <<>> >>
    ELSE LET rest == Split(Tail(chars))
         IN IF Head(chars) = "."
            THEN << <<>> >> \o rest
            ELSE << <<Head(chars)>> \o Head(rest) >> \o Tail(rest)

\* nested[key] = sub, on the heap
SetSlot(h, a, i, slot) ==
    [h EXCEPT ![a].parts[i] = [slot EXCEPT !.key = h[a].parts[i].key]]

\* replace_entry that replaces a list at the entry like any other value
RECURSIVE replace_whole(_, _, _, _)
replace_whole(h, nested, key_list, value) ==
    LET key == Head(key_list)
        obj == h[nested.ref]
        i == KeyIndex(obj.parts, key)
        sub == obj.parts[i]
    IN IF nested.ref = 0 \/ obj.kind = "list"
       THEN [heap |-> h, err |-> "TypeError"]
       ELSE IF i = 0 THEN [heap |-> h, err |-> "KeyError"]
       ELSE IF Len(key_list) = 1
       THEN [heap |-> SetSlot(h, nested.ref, i, ScalarSlot(key, value)),
             err |-> "none"]
       ELSE replace_whole(h, sub, Tail(key_list), value)

\* replace_entry(nested, key_list, value) of configuration(): the heap it
\* leaves and the exception of nested[key_list[0]] or sub[0], if any
RECURSIVE replace_entry(_, _, _, _)
replace_entry(h, nested, key_list, value) ==
    LET key == Head(key_list)
        obj == h[nested.ref]
        i == KeyIndex(obj.parts, key)
        sub == obj.parts[i]
    IN IF nested.ref = 0 \/ obj.kind = "list"
       THEN [heap |-> h, err |-> "TypeError"]
       ELSE IF i = 0 THEN [heap |-> h, err |-> "KeyError"]
       ELSE IF Len(key_list) = 1
       THEN IF sub.ref # 0 /\ h[sub.ref].kind = "list"
            THEN IF h[sub.ref].parts = <<>>
                 THEN [heap |-> h, err |-> "IndexError"]
                 ELSE [heap |-> SetSlot(h, sub.ref, 1,
                                        ScalarSlot(NoKey, value)),
                       err |-> "none"]
            ELSE [heap |-> SetSlot(h, nested.ref, i, ScalarSlot(key, value)),
                  err |-> "none"]
       ELSE replace_entry(h, sub, Tail(key_list), value)

\* ------------------------------------------------------------------ state
VARIABLES
    handler,    \* self._entry, self._values, self._output: fixed inputs
    artifact,   \* the output artifact: [exists, groups]
    derived,    \* the dict self.tasks returned last (items in order)
    mode,       \* "idle", "serial" or "parallel": the call in progress
    cpc,        \* position of the caller inside run_serial / run_parallel
    result,     \* "none", "True", or the exception that left the call
    tasks,      \* the local list `tasks` of the call, after tasks.sort()
    sidx,       \* run_serial: index of the current task in `tasks`
    nproc,      \* run_parallel: number_of_processes
    tasks_to_accomplish,   \* run_parallel: the work queue
    finished_tasks,        \* run_parallel: the completion notices
    lock,       \* run_parallel: 0 when free, else the worker holding it
    wpc,        \* worker -> position inside worker()
    wtask,      \* worker -> task of its current obj (None before the first)
    tstate,     \* task -> "PENDING", "RUNNING", "DONE", "FAILED" in this call
    dequeues,   \* task -> times a get_nowait returned it in this call
    writes,     \* task -> times module.save wrote its group in this call
    started,    \* tasks in the order their run was dispatched in this call
    metaCalls,  \* _save_metadata calls that reached save_metadata, this call
    metaEarly,  \* those of them made before every worker was joined
    freshStart, \* the artifact did not exist when this call began
    heap,       \* the dicts and lists of self._defaults and of every
                \* configuration returned so far, by address
    returned,   \* what the configuration() calls made so far ended with
    parse       \* the arguments of from_dict's _parse_output call and, once
                \* it was made, what it ended with

runVars == <<mode, cpc, result, tasks, sidx, nproc, tasks_to_accomplish,
             finished_tasks, lock, wpc, wtask>>
histVars == <<tstate, dequeues, writes, started, metaCalls, metaEarly,
              freshStart>>
configVars == <<heap, returned>>
vars == <<handler, artifact, derived, runVars, histVars, configVars, parse>>

Workers == 1..MaxWorkers

\* self._output: what from_dict's _parse_output call returned
output == parse.res.out

\* self._defaults as given to the constructor
defaults == DefaultsNamed(handler.defaults)

TaskIds == Range(TaskList(handler.entry, handler.values))

ValueSeqs(S) == UNION {[1..k -> S] : k \in 1..MaxValues}

NoWorkers == [w \in Workers |-> "off"]
NoArtifact == [exists |-> FALSE, groups |-> {}]

\* the _parse_output call of from_dict that gave the output dictionary out:
\* a block with format and force_overwrite, and the name as keyword
FromDictCall(out) ==
    LET d == [name |-> Absent, format |-> out.format,
              force_overwrite |-> IF out.force_overwrite THEN "True"
                                  ELSE "False"]
    IN [dct |-> d, fname |-> out.name, fpath |-> None,
        res |-> parse_output(d, out.name, None)]

\* the state after from_dict with one of the _parse_output calls `parses`
\* and __init__(defaults, variation, output): the arguments are stored as
\* they are (handler.defaults names the defaults block), no call made yet
InitHandler(entries, valueSeqs, parses, defaultsSet) ==
    /\ handler \in [entry : entries, values : valueSeqs,
                    defaults : defaultsSet]
    /\ parse \in parses
    /\ heap = defaults
    /\ returned = <<>>
    /\ artifact = NoArtifact
    /\ derived = <<>>
    /\ mode = "idle"
    /\ cpc = "idle"
    /\ result = "none"
    /\ tasks = <<>>
    /\ sidx = 0
    /\ nproc = 0
    /\ tasks_to_accomplish = <<>>
    /\ finished_tasks = {}
    /\ lock = 0
    /\ wpc = NoWorkers
    /\ wtask = [w \in Workers |-> None]
    /\ tstate = [t \in TaskIds |-> "PENDING"]
    /\ dequeues = [t \in TaskIds |-> 0]
    /\ writes = [t \in TaskIds |-> 0]
    /\ started = <<>>
    /\ metaCalls = 0
    /\ metaEarly = 0
    /\ freshStart = TRUE

\* the values swept in the runs: ints whose task ids sort against their
\* numeric order; the entries: one that is in the defaults and one that is
\* not
SweepValues == {IntV(1), IntV(2), IntV(10)}
SweepEntries == {<<"a", ".", "b">>, <<"a", ".", "c">>}

\* force_overwrite set where no file can come to exist (no output, or a
\* format no save accepts): the same runs as with force_overwrite unset
ForceWithoutFile ==
    {FromDictCall(OutputOf(<<"out">>, f, TRUE)) : f \in {<<"csv">>, None}}

\* from_dict for a variation over one of `valueSeqs` of one of `entries`,
\* with the output block parsed for the name "out"
InitWith(entries, valueSeqs) ==
    InitHandler(entries, valueSeqs,
                {FromDictCall(OutputOf(<<"out">>, f, b)) :
                     f \in Formats, b \in BOOLEAN} \ ForceWithoutFile,
                {"list"})

\* sweeps list their values in ascending order, repeats included
AscendingSeqs(S) ==
    {vs \in ValueSeqs(S) :
         \A i, j \in 1..Len(vs) : i < j => vs[i].n <= vs[j].n}

Init == InitWith(SweepEntries, AscendingSeqs(SweepValues))

\* --------------------------------------------------------- Simulation.*
\* self.data after obj.run(task, config): the result of the module's run,
\* one group named after the run
ResultGroups(task) == {task}

\* SaveReturnsEarly without the two early returns
SaveNeverReturnsEarly(out) == FALSE

\* _save: the two early returns for "no output requested"
SaveReturnsEarly(out) == out.file_name = None

\* _save: the file check; the file exists, a group of it is in self.data,
\* mode is 'a' and force is off -> RuntimeError
OverwriteRefused(out, art, data) ==
    /\ art.exists
    /\ \E group \in art.groups : group \in data /\ ~out.force_overwrite

\* _save: formatt in supported, with formatt = "." + format
FormatSupported(out) == (<<".">> \o out.format) \in supported

\* module.save(filename, self.data, task) on the artifact
SaveGroup(art, task) ==
    [exists |-> TRUE, groups |-> art.groups \cup {task}]

\* what one _save(task=task) call ends with
SaveOutcome(out, art, data) ==
    IF SaveReturnsEarly(out) THEN "return"
    ELSE IF OverwriteRefused(out, art, data) THEN "RuntimeError"
    ELSE IF FormatSupported(out) THEN "saved"
    ELSE "ValueError"

\* _save_metadata: metadata and self._output are set, so save_metadata is
\* called
SaveMetadataCalled(out) == TRUE

\* parser.save_metadata appends the provenance record unless no output is
\* requested
MetadataWritten(out) == out.file_name # None

\* --------------------------------------------------------- configuration
\* TaskIndex that takes a str that is no key for the first key
TaskIndexLenient(task) ==
    LET d == TasksOf(handler.entry, handler.values)
        p == Position([i \in 1..Len(d) |-> d[i].id], task)
    IN IF p = 0 THEN 1 ELSE p

\* the place of a task in self.tasks, 0 for a str that is no key of it
TaskIndex(task) ==
    LET d == TasksOf(handler.entry, handler.values)
    IN Position([i \in 1..Len(d) |-> d[i].id], task)

\* the result of a configuration() call that raised
NoConfig == ScalarSlot(NoKey, IntV(0))

\* configuration(task) on heap h: `assert task is not None` passes for every
\* str; out = deepcopy(self._defaults); value = self.tasks[task] (KeyError for
\* an unknown task); entry = self._entry.split('.'); replace_entry(out, entry,
\* value).  The copy of a call that raised is garbage and is not kept.
configuration(h, task) ==
    LET out == deepcopy(h, Base)
        p == TaskIndex(task)
        value == TasksOf(handler.entry, handler.values)[p].value
        r == replace_entry(out.heap, out.slot, Split(handler.entry), value)
    IN IF p = 0 THEN [heap |-> h, slot |-> NoConfig, err |-> "KeyError"]
       ELSE IF r.err # "none"
       THEN [heap |-> h, slot |-> NoConfig, err |-> r.err]
       ELSE [heap |-> r.heap, slot |-> out.slot, err |-> "none"]

\* the place in ts of the first task whose configuration() raises, 0 when
\* none does
RECURSIVE FirstConfigError(_)
FirstConfigError(ts) ==
    IF ts = <<>> THEN 0
    ELSE LET f == FirstConfigError(SubSeq(ts, 1, Len(ts) - 1))
         IN IF f # 0 THEN f
            ELSE IF configuration(heap, ts[Len(ts)]).err # "none"
            THEN Len(ts) ELSE 0

\* a str that is a task of no handler
UnknownTask == <<"x", "_", "x">>

\* -------------------------------------------------------- a call begins
\* SortedTasks without tasks.sort(): the keys in the dict's own order
UnsortedTasks(d) == [i \in 1..Len(d) |-> d[i].id]

\* tasks = [t for t in self.tasks]; tasks.sort()
SortedTasks(d) == Sort([i \in 1..Len(d) |-> d[i].id])

ResetHistory ==
    /\ tstate' = [t \in TaskIds |-> "PENDING"]
    /\ dequeues' = [t \in TaskIds |-> 0]
    /\ writes' = [t \in TaskIds |-> 0]
    /\ started' = <<>>
    /\ metaCalls' = 0
    /\ metaEarly' = 0
    /\ freshStart' = ~artifact.exists

CallAllowed == cpc \in {"idle", "returned", "raised"}

\* ------------------------------------------------------------ run_serial
RunSerialBegin ==
    /\ CallAllowed
    /\ ResetHistory
    /\ derived' = TasksOf(handler.entry, handler.values)
    /\ tasks' = SortedTasks(derived')
    /\ mode' = "serial"
    /\ cpc' = "s_config"
    /\ result' = "none"
    /\ sidx' = 1
    /\ nproc' = 0
    /\ tasks_to_accomplish' = <<>>
    /\ finished_tasks' = {}
    /\ lock' = 0
    /\ wpc' = NoWorkers
    /\ wtask' = [w \in Workers |-> None]
    /\ UNCHANGED <<handler, parse, configVars, artifact>>

\* for t in tasks: config = self.configuration(t), which raises or hands the
\* configuration to obj.run(t, config); the configuration is dropped after
\* the run and leaves nothing on the heap
S_Configuration ==
    /\ mode = "serial" /\ cpc = "s_config"
    /\ LET t == tasks[sidx]
           c == configuration(heap, t)
       IN IF c.err = "none"
          THEN /\ started' = Append(started, t)
               /\ tstate' = [tstate EXCEPT ![t] = "RUNNING"]
               /\ cpc' = "s_run"
               /\ result' = result
          ELSE /\ started' = started
               /\ tstate' = tstate
               /\ cpc' = "raised"
               /\ result' = c.err
    /\ UNCHANGED <<handler, parse, configVars, artifact, derived, mode, tasks, sidx,
                   nproc, tasks_to_accomplish, finished_tasks, lock, wpc,
                   wtask, dequeues, writes, metaCalls, metaEarly, freshStart>>

\* S_Run that swallows the error of obj.run and goes on with the next task
S_RunKeepsGoing ==
    /\ mode = "serial" /\ cpc = "s_run"
    /\ LET t == tasks[sidx]
       IN \/ /\ tstate' = tstate
             /\ cpc' = "s_save"
             /\ sidx' = sidx
          \/ /\ tstate' = [tstate EXCEPT ![t] = "FAILED"]
             /\ cpc' = IF sidx = Len(tasks) THEN "s_meta" ELSE "s_config"
             /\ sidx' = sidx + 1
    /\ UNCHANGED <<handler, parse, configVars, artifact, derived, mode, result,
                   tasks, nproc, tasks_to_accomplish, finished_tasks, lock,
                   wpc, wtask, dequeues, writes, started, metaCalls,
                   metaEarly, freshStart>>

\* obj.run(t, config, **kwargs) returns, or raises and ends run_serial
S_Run ==
    /\ mode = "serial" /\ cpc = "s_run"
    /\ LET t == tasks[sidx]
       IN \/ /\ tstate' = tstate
             /\ cpc' = "s_save"
             /\ result' = result
          \/ /\ tstate' = [tstate EXCEPT ![t] = "FAILED"]
             /\ cpc' = "raised"
             /\ result' = "SimulationError"
    /\ UNCHANGED <<handler, parse, configVars, artifact, derived, mode, tasks, sidx,
                   nproc, tasks_to_accomplish, finished_tasks, lock, wpc,
                   wtask, dequeues, writes, started, metaCalls, metaEarly,
                   freshStart>>

\* obj._save(task=t), then the next iteration or the end of the loop
S_Save ==
    /\ mode = "serial" /\ cpc = "s_save"
    /\ LET t == tasks[sidx]
           r == SaveOutcome(output, artifact, ResultGroups(t))
       IN /\ artifact' = IF r = "saved" THEN SaveGroup(artifact, t)
                         ELSE artifact
          /\ writes' = IF r = "saved"
                       THEN [writes EXCEPT ![t] = @ + 1] ELSE writes
          /\ IF r \in {"saved", "return"}
             THEN /\ tstate' = [tstate EXCEPT ![t] = "DONE"]
                  /\ result' = result
                  /\ sidx' = sidx + 1
                  /\ cpc' = IF sidx = Len(tasks) THEN "s_meta"
                            ELSE "s_config"
             ELSE /\ tstate' = [tstate EXCEPT ![t] = "FAILED"]
                  /\ result' = r
                  /\ sidx' = sidx
                  /\ cpc' = "raised"
    /\ UNCHANGED <<handler, parse, configVars, derived, mode, tasks, nproc,
                   tasks_to_accomplish, finished_tasks, lock, wpc, wtask,
                   dequeues, started, metaCalls, metaEarly, freshStart>>

\* obj._save_metadata(self._metadata); return True
S_Meta ==
    /\ mode = "serial" /\ cpc = "s_meta"
    /\ metaCalls' = IF SaveMetadataCalled(output)
                    THEN metaCalls + 1 ELSE metaCalls
    /\ result' = "True"
    /\ cpc' = "returned"
    /\ UNCHANGED <<handler, parse, configVars, artifact, derived, mode, tasks, sidx,
                   nproc, tasks_to_accomplish, finished_tasks, lock, wpc,
                   wtask, tstate, dequeues, writes, started, metaEarly,
                   freshStart>>

\* -------------------------------------------------------------- run_task
\* assert task in self.tasks; obj = Simulation.from_module(...);
\* config = self.configuration(task), which raises or hands the
\* configuration to obj.run(task, config)
RunTaskBegin(task) ==
    /\ CallAllowed
    /\ derived' = TasksOf(handler.entry, handler.values)
    /\ tasks' = <<task>>
    /\ mode' = "task"
    /\ sidx' = 1
    /\ nproc' = 0
    /\ tasks_to_accomplish' = <<>>
    /\ finished_tasks' = {}
    /\ lock' = 0
    /\ wpc' = NoWorkers
    /\ wtask' = [w \in Workers |-> None]
    /\ dequeues' = [t \in TaskIds |-> 0]
    /\ writes' = [t \in TaskIds |-> 0]
    /\ metaCalls' = 0
    /\ metaEarly' = 0
    /\ freshStart' = ~artifact.exists
    /\ IF TaskIndex(task) = 0
       THEN /\ cpc' = "raised"
            /\ result' = "AssertionError"
            /\ started' = <<>>
            /\ tstate' = [t \in TaskIds |-> "PENDING"]
       ELSE IF configuration(heap, task).err # "none"
       THEN /\ cpc' = "raised"
            /\ result' = configuration(heap, task).err
            /\ started' = <<>>
            /\ tstate' = [t \in TaskIds |-> "PENDING"]
       ELSE /\ cpc' = "k_run"
            /\ result' = "none"
            /\ started' = <<task>>
            /\ tstate' = [t \in TaskIds |->
                             IF t = task THEN "RUNNING" ELSE "PENDING"]
    /\ UNCHANGED <<handler, parse, configVars, artifact>>

\* obj.run(task, config, **kwargs) returns, or raises and ends run_task
K_Run ==
    /\ mode = "task" /\ cpc = "k_run"
    /\ \/ /\ tstate' = tstate
          /\ cpc' = "k_save"
          /\ result' = result
       \/ /\ tstate' = [tstate EXCEPT ![tasks[1]] = "FAILED"]
          /\ cpc' = "raised"
          /\ result' = "SimulationError"
    /\ UNCHANGED <<handler, parse, configVars, artifact, derived, mode, tasks, sidx,
                   nproc, tasks_to_accomplish, finished_tasks, lock, wpc,
                   wtask, dequeues, writes, started, metaCalls, metaEarly,
                   freshStart>>

\* obj._save(task=task)
K_Save ==
    /\ mode = "task" /\ cpc = "k_save"
    /\ LET t == tasks[1]
           r == SaveOutcome(output, artifact, ResultGroups(t))
       IN /\ artifact' = IF r = "saved" THEN SaveGroup(artifact, t)
                         ELSE artifact
          /\ writes' = IF r = "saved"
                       THEN [writes EXCEPT ![t] = @ + 1] ELSE writes
          /\ IF r \in {"saved", "return"}
             THEN /\ tstate' = [tstate EXCEPT ![t] = "DONE"]
                  /\ result' = result
                  /\ cpc' = "k_meta"
             ELSE /\ tstate' = [tstate EXCEPT ![t] = "FAILED"]
                  /\ result' = r
                  /\ cpc' = "raised"
    /\ UNCHANGED <<handler, parse, configVars, derived, mode, tasks, sidx, nproc,
                   tasks_to_accomplish, finished_tasks, lock, wpc, wtask,
                   dequeues, started, metaCalls, metaEarly, freshStart>>

\* obj._save_metadata(self._metadata); run_task returns None
K_Meta ==
    /\ mode = "task" /\ cpc = "k_meta"
    /\ metaCalls' = IF SaveMetadataCalled(output)
                    THEN metaCalls + 1 ELSE metaCalls
    /\ result' = "None"
    /\ cpc' = "returned"
    /\ UNCHANGED <<handler, parse, configVars, artifact, derived, mode, tasks, sidx,
                   nproc, tasks_to_accomplish, finished_tasks, lock, wpc,
                   wtask, tstate, dequeues, writes, started, metaEarly,
                   freshStart>>

\* ---------------------------------------------------------- run_parallel
\* RunParallelBegin with one queue entry per value instead of one per task
RunParallelBeginPerValue(n) ==
    /\ CallAllowed
    /\ ResetHistory
    /\ derived' = TasksOf(handler.entry, handler.values)
    /\ tasks' = SortedTasks(derived')
    /\ mode' = "parallel"
    /\ sidx' = 0
    /\ nproc' = n
    /\ finished_tasks' = {}
    /\ lock' = 0
    /\ wtask' = [w \in Workers |-> None]
    /\ LET f == FirstConfigError(tasks')
       IN IF f # 0
          THEN /\ tasks_to_accomplish' = SubSeq(tasks', 1, f - 1)
               /\ cpc' = "raised"
               /\ result' = configuration(heap, tasks'[f]).err
               /\ wpc' = NoWorkers
          ELSE /\ tasks_to_accomplish' =
                      Sort([i \in 1..Len(handler.values) |->
                               TaskId(handler.entry, handler.values[i])])
               /\ cpc' = "join"
               /\ result' = "none"
               /\ wpc' = [w \in Workers |-> IF w <= n THEN "get" ELSE "off"]
    /\ UNCHANGED <<handler, parse, configVars, artifact>>

\* for t in tasks: config = self.configuration(t), which raises, or the task
\* is put on the work queue; then the lock is created and
\* number_of_processes workers are started
RunParallelBegin(n) ==
    /\ CallAllowed
    /\ ResetHistory
    /\ derived' = TasksOf(handler.entry, handler.values)
    /\ tasks' = SortedTasks(derived')
    /\ mode' = "parallel"
    /\ sidx' = 0
    /\ nproc' = n
    /\ finished_tasks' = {}
    /\ lock' = 0
    /\ wtask' = [w \in Workers |-> None]
    /\ LET f == FirstConfigError(tasks')
       IN IF f # 0
          THEN /\ tasks_to_accomplish' = SubSeq(tasks', 1, f - 1)
               /\ cpc' = "raised"
               /\ result' = configuration(heap, tasks'[f]).err
               /\ wpc' = NoWorkers
          ELSE /\ tasks_to_accomplish' = tasks'
               /\ cpc' = "join"
               /\ result' = "none"
               /\ wpc' = [w \in Workers |-> IF w <= n THEN "get" ELSE "off"]
    /\ UNCHANGED <<handler, parse, configVars, artifact>>

\* W_Get with a blocking get(): a worker waits at an empty queue
W_GetBlocks(w) ==
    /\ mode = "parallel" /\ wpc[w] = "get"
    /\ tasks_to_accomplish # <<>>
    /\ LET t == Head(tasks_to_accomplish)
       IN /\ tasks_to_accomplish' = Tail(tasks_to_accomplish)
          /\ wtask' = [wtask EXCEPT ![w] = t]
          /\ tstate' = [tstate EXCEPT ![t] = "RUNNING"]
          /\ dequeues' = [dequeues EXCEPT ![t] = @ + 1]
          /\ started' = Append(started, t)
          /\ wpc' = [wpc EXCEPT ![w] = "run"]
    /\ UNCHANGED <<handler, parse, configVars, artifact, derived, mode, cpc,
                   result, tasks, sidx, nproc, finished_tasks, lock, writes,
                   metaCalls, metaEarly, freshStart>>

\* tasks_to_accomplish.get_nowait(): the next task, or queue.Empty -> break
W_Get(w) ==
    /\ mode = "parallel" /\ wpc[w] = "get"
    /\ IF tasks_to_accomplish = <<>>
       THEN /\ wpc' = [wpc EXCEPT ![w] = "meta"]
            /\ UNCHANGED <<tasks_to_accomplish, wtask, tstate, dequeues,
                           started>>
       ELSE LET t == Head(tasks_to_accomplish)
            IN /\ tasks_to_accomplish' = Tail(tasks_to_accomplish)
               /\ wtask' = [wtask EXCEPT ![w] = t]
               /\ tstate' = [tstate EXCEPT ![t] = "RUNNING"]
               /\ dequeues' = [dequeues EXCEPT ![t] = @ + 1]
               /\ started' = Append(started, t)
               /\ wpc' = [wpc EXCEPT ![w] = "run"]
    /\ UNCHANGED <<handler, parse, configVars, artifact, derived, mode, cpc, result, tasks,
                   sidx, nproc, finished_tasks, lock, writes, metaCalls,
                   metaEarly, freshStart>>

\* W_Run that puts the task of a failed run back on the work queue
W_RunRetries(w) ==
    /\ mode = "parallel" /\ wpc[w] = "run"
    /\ \/ /\ wpc' = [wpc EXCEPT ![w] = "lock"]
          /\ tstate' = tstate
          /\ tasks_to_accomplish' = tasks_to_accomplish
       \/ /\ wpc' = [wpc EXCEPT ![w] = "get"]
          /\ tstate' = [tstate EXCEPT ![wtask[w]] = "FAILED"]
          /\ tasks_to_accomplish' = Append(tasks_to_accomplish, wtask[w])
    /\ UNCHANGED <<handler, parse, configVars, artifact, derived, mode, cpc, result,
                   tasks, sidx, nproc, finished_tasks, lock, wtask, dequeues,
                   writes, started, metaCalls, metaEarly, freshStart>>

\* obj.run(task, config, **kwargs): returns, or raises and ends the process
W_Run(w) ==
    /\ mode = "parallel" /\ wpc[w] = "run"
    /\ \/ /\ wpc' = [wpc EXCEPT ![w] = "lock"]
          /\ tstate' = tstate
       \/ /\ wpc' = [wpc EXCEPT ![w] = "crashed"]
          /\ tstate' = [tstate EXCEPT ![wtask[w]] = "FAILED"]
    /\ UNCHANGED <<handler, parse, configVars, artifact, derived, mode, cpc, result, tasks,
                   sidx, nproc, tasks_to_accomplish, finished_tasks, lock,
                   wtask, dequeues, writes, started, metaCalls, metaEarly,
                   freshStart>>

\* W_Acquire without the lock: the save is entered whoever holds it
W_AcquireUnlocked(w) ==
    /\ mode = "parallel" /\ wpc[w] = "lock"
    /\ lock' = w
    /\ wpc' = [wpc EXCEPT ![w] = "check"]
    /\ UNCHANGED <<handler, parse, configVars, artifact, derived, mode, cpc, result, tasks,
                   sidx, nproc, tasks_to_accomplish, finished_tasks, wtask,
                   histVars>>

\* with lock: (the lock is acquired)
W_Acquire(w) ==
    /\ mode = "parallel" /\ wpc[w] = "lock"
    /\ lock = 0
    /\ lock' = w
    /\ wpc' = [wpc EXCEPT ![w] = "check"]
    /\ UNCHANGED <<handler, parse, configVars, artifact, derived, mode, cpc, result, tasks,
                   sidx, nproc, tasks_to_accomplish, finished_tasks, wtask,
                   histVars>>

\* W_Check with lock.acquire() and no release on the way of the exception
W_CheckKeepsLock(w) ==
    /\ mode = "parallel" /\ wpc[w] = "check"
    /\ LET t == wtask[w]
       IN IF SaveReturnsEarly(output)
          THEN /\ wpc' = [wpc EXCEPT ![w] = "put"]
               /\ tstate' = [tstate EXCEPT ![t] = "DONE"]
               /\ lock' = 0
          ELSE IF OverwriteRefused(output, artifact, ResultGroups(t))
          THEN /\ wpc' = [wpc EXCEPT ![w] = "crashed"]
               /\ tstate' = [tstate EXCEPT ![t] = "FAILED"]
               /\ lock' = lock
          ELSE /\ wpc' = [wpc EXCEPT ![w] = "write"]
               /\ tstate' = tstate
               /\ lock' = lock
    /\ UNCHANGED <<handler, parse, configVars, artifact, derived, mode, cpc,
                   result, tasks, sidx, nproc, tasks_to_accomplish,
                   finished_tasks, wtask, dequeues, writes, started,
                   metaCalls, metaEarly, freshStart>>

\* obj._save(task=task) up to the end of the file check; an early return or
\* the RuntimeError leaves the with block, which releases the lock
W_Check(w) ==
    /\ mode = "parallel" /\ wpc[w] = "check"
    /\ LET t == wtask[w]
       IN IF SaveReturnsEarly(output)
          THEN /\ wpc' = [wpc EXCEPT ![w] = "put"]
               /\ tstate' = [tstate EXCEPT ![t] = "DONE"]
               /\ lock' = 0
          ELSE IF OverwriteRefused(output, artifact, ResultGroups(t))
          THEN /\ wpc' = [wpc EXCEPT ![w] = "crashed"]
               /\ tstate' = [tstate EXCEPT ![t] = "FAILED"]
               /\ lock' = 0
          ELSE /\ wpc' = [wpc EXCEPT ![w] = "write"]
               /\ tstate' = tstate
               /\ lock' = lock
    /\ UNCHANGED <<handler, parse, configVars, artifact, derived, mode, cpc, result, tasks,
                   sidx, nproc, tasks_to_accomplish, finished_tasks, wtask,
                   dequeues, writes, started, metaCalls, metaEarly,
                   freshStart>>

\* W_Write that reports the task done without calling module.save
W_WriteSkipsSave(w) ==
    /\ mode = "parallel" /\ wpc[w] = "write"
    /\ tstate' = [tstate EXCEPT ![wtask[w]] = "DONE"]
    /\ wpc' = [wpc EXCEPT ![w] = "put"]
    /\ lock' = 0
    /\ UNCHANGED <<handler, parse, configVars, artifact, derived, mode, cpc, result, tasks,
                   sidx, nproc, tasks_to_accomplish, finished_tasks, wtask,
                   dequeues, writes, started, metaCalls, metaEarly,
                   freshStart>>

\* the rest of obj._save: the format check and module.save, or ValueError;
\* the with block ends and releases the lock
W_Write(w) ==
    /\ mode = "parallel" /\ wpc[w] = "write"
    /\ LET t == wtask[w]
       IN IF FormatSupported(output)
          THEN /\ artifact' = SaveGroup(artifact, t)
               /\ writes' = [writes EXCEPT ![t] = @ + 1]
               /\ tstate' = [tstate EXCEPT ![t] = "DONE"]
               /\ wpc' = [wpc EXCEPT ![w] = "put"]
          ELSE /\ artifact' = artifact
               /\ writes' = writes
               /\ tstate' = [tstate EXCEPT ![t] = "FAILED"]
               /\ wpc' = [wpc EXCEPT ![w] = "crashed"]
    /\ lock' = 0
    /\ UNCHANGED <<handler, parse, configVars, derived, mode, cpc, result, tasks, sidx, nproc,
                   tasks_to_accomplish, finished_tasks, wtask, dequeues,
                   started, metaCalls, metaEarly, freshStart>>

\* tasks_that_are_done.put(msg), back to the head of the loop
W_Put(w) ==
    /\ mode = "parallel" /\ wpc[w] = "put"
    /\ finished_tasks' = finished_tasks \cup {<<wtask[w], w>>}
    /\ wpc' = [wpc EXCEPT ![w] = "get"]
    /\ UNCHANGED <<handler, parse, configVars, artifact, derived, mode, cpc, result, tasks,
                   sidx, nproc, tasks_to_accomplish, lock, wtask, histVars>>

\* obj._save_metadata(metadata) after the loop: obj is unbound when the
\* worker ran no task (UnboundLocalError ends the process)
W_Meta(w) ==
    /\ mode = "parallel" /\ wpc[w] = "meta"
    /\ IF wtask[w] = None
       THEN /\ wpc' = [wpc EXCEPT ![w] = "crashed"]
            /\ UNCHANGED <<metaCalls, metaEarly>>
       ELSE /\ metaCalls' = IF SaveMetadataCalled(output)
                            THEN metaCalls + 1 ELSE metaCalls
            /\ metaEarly' = IF SaveMetadataCalled(output) /\ cpc = "join"
                            THEN metaEarly + 1 ELSE metaEarly
            /\ wpc' = [wpc EXCEPT ![w] =
                         IF SaveMetadataCalled(output)
                            /\ MetadataWritten(output)
                         THEN "metaw" ELSE "done"]
    /\ UNCHANGED <<handler, parse, configVars, artifact, derived, mode, cpc, result, tasks,
                   sidx, nproc, tasks_to_accomplish, finished_tasks, lock,
                   wtask, tstate, dequeues, writes, started, freshStart>>

\* save_metadata returns; return True
W_MetaEnd(w) ==
    /\ mode = "parallel" /\ wpc[w] = "metaw"
    /\ wpc' = [wpc EXCEPT ![w] = "done"]
    /\ UNCHANGED <<handler, parse, configVars, artifact, derived, mode, cpc, result, tasks,
                   sidx, nproc, tasks_to_accomplish, finished_tasks, lock,
                   wtask, histVars>>

\* for p in processes: p.join()
P_Join ==
    /\ mode = "parallel" /\ cpc = "join"
    /\ \A w \in Workers : wpc[w] \in {"off", "done", "crashed"}
    /\ cpc' = "drain"
    /\ UNCHANGED <<handler, parse, configVars, artifact, derived, mode, result, tasks, sidx,
                   nproc, tasks_to_accomplish, finished_tasks, lock, wpc,
                   wtask, histVars>>

\* while not finished_tasks.empty(): finished_tasks.get(); return True
P_Return ==
    /\ mode = "parallel" /\ cpc = "drain"
    /\ finished_tasks' = {}
    /\ result' = "True"
    /\ cpc' = "returned"
    /\ UNCHANGED <<handler, parse, configVars, artifact, derived, mode, tasks, sidx, nproc,
                   tasks_to_accomplish, lock, wpc, wtask, histVars>>

\* ------------------------------------------------------------ self.tasks
\* the tasks property is evaluated: {'{}_{}'.format(e, v): v for v in values}
T_Tasks ==
    /\ derived' = TasksOf(handler.entry, handler.values)
    /\ UNCHANGED <<handler, parse, configVars, artifact, runVars, histVars>>

\* ------------------------------------------------- configuration() called
\* the value a caller stores into a configuration it was given
Written == StrV(<<"x">>)

\* handler.configuration(task) / handler[task] is called
C_Configuration(task) ==
    /\ Len(returned) < MaxConfigs
    /\ LET r == configuration(heap, task)
       IN /\ heap' = r.heap
          /\ returned' = Append(returned, [task |-> task, slot |-> r.slot,
                                           err |-> r.err, mutatedAt |-> 0])
    /\ UNCHANGED <<handler, parse, artifact, derived, runVars, histVars>>

\* the caller stores a value into a dict or list of the i-th configuration
\* it was given (mutatedAt: the number of calls made by then)
C_Mutate(i, a, k) ==
    /\ returned[i].err = "none" /\ returned[i].mutatedAt = 0
    /\ a \in Reach(heap, returned[i].slot)
    /\ k \in 1..Len(heap[a].parts)
    /\ heap' = SetSlot(heap, a, k, ScalarSlot(NoKey, Written))
    /\ returned' = [returned EXCEPT ![i].mutatedAt = Len(returned)]
    /\ UNCHANGED <<handler, parse, artifact, derived, runVars, histVars>>

\* ---------------------------------------------------------- specification
Next ==
    \/ RunSerialBegin
    \/ S_Configuration
    \/ S_Run
    \/ S_Save
    \/ S_Meta
    \/ \E task \in TaskIds \cup {UnknownTask} : RunTaskBegin(task)
    \/ K_Run
    \/ K_Save
    \/ K_Meta
    \/ \E n \in 0..MaxWorkers : RunParallelBegin(n)
    \/ \E w \in Workers : W_Get(w)
    \/ \E w \in Workers : W_Run(w)
    \/ \E w \in Workers : W_Acquire(w)
    \/ \E w \in Workers : W_Check(w)
    \/ \E w \in Workers : W_Write(w)
    \/ \E w \in Workers : W_Put(w)
    \/ \E w \in Workers : W_Meta(w)
    \/ \E w \in Workers : W_MetaEnd(w)
    \/ P_Join
    \/ P_Return

Spec == Init /\ [][Next]_vars

\* what the process of worker w can do next
WorkerStep(w) ==
    \/ W_Get(w) \/ W_Run(w) \/ W_Acquire(w) \/ W_Check(w) \/ W_Write(w)
    \/ W_Put(w) \/ W_Meta(w) \/ W_MetaEnd(w)

\* the operating system keeps running the processes of a run_parallel call:
\* while a worker or the joining caller can take a step, one of them does
\* (less than the scheduling of every single process, which the operating
\* system gives as well)
ParallelStep == (\E w \in Workers : WorkerStep(w)) \/ P_Join \/ P_Return
FairSpec == Spec /\ WF_vars(ParallelStep)

\* the task registry alone, over entries and values of every kind
Entries == {<<"x">>, <<"a", ".", "b">>}
InitTasks == InitWith(Entries, ValueSeqs(Values))
NextTasks == T_Tasks
SpecTasks == InitTasks /\ [][NextTasks]_vars

\* configuration() for any str, and run_task for a str that is no task:
\* entries that resolve to a list, to a scalar, to a missing key and through
\* a scalar, over the two defaults
ConfigEntries == {<<"a", ".", "b">>, <<"x">>, <<"a", ".", "c">>,
                  <<"x", ".", "y">>}
InitConfig ==
    InitHandler(ConfigEntries, {<<IntV(10), IntV(2)>>},
                {FromDictCall(OutputOf(<<"out">>, <<"h5">>, FALSE))},
                {"list", "scalar"})
NextConfig ==
    \/ \E task \in TaskIds \cup {UnknownTask} : C_Configuration(task)
    \/ \E i \in 1..Len(returned) : \E a \in 1..Len(heap) :
           \E k \in 1..Len(heap[a].parts) : C_Mutate(i, a, k)
    \/ RunTaskBegin(UnknownTask)
SpecConfig == InitConfig /\ [][NextConfig]_vars

\* from_dict's _parse_output call alone, over output blocks, names and paths
NotCalled == [err |-> "not called", out |-> None]
DeclaredFormats == {Absent, None, <<>>, <<"csv">>, <<"h5">>, <<".", "h5">>,
                    <<".", ".", "hdf">>, <<".">>}
ExplicitNames == {None, <<"run">>, <<"run", ".", "h5">>,
                  <<"run", ".", "txt">>, <<"run", ".", "csv">>,
                  <<"d", "/", "run", ".", "hdf5">>, <<".", "h5">>}
InitOutput ==
    InitHandler({<<"a", ".", "b">>}, {<<IntV(1)>>},
                [dct : [name : {Absent, <<"out">>}, format : DeclaredFormats,
                        force_overwrite : {"absent", "True"}],
                 fname : ExplicitNames, fpath : {None, <<"p">>},
                 res : {NotCalled}],
                {"list"})

\* output = cls._parse_output(output, fname=name, fpath=path)
ParseOutput ==
    /\ parse.res = NotCalled
    /\ parse' = [parse EXCEPT
                    !.res = parse_output(parse.dct, parse.fname, parse.fpath)]
    /\ UNCHANGED <<handler, artifact, derived, runVars, histVars, configVars>>

NextOutput == ParseOutput
SpecOutput == InitOutput /\ [][NextOutput]_vars

\* ------------------------------------------------------------------ claims
InSave(w) == wpc[w] \in {"check", "write"}
NoTaskFailed == \A t \in TaskIds : tstate[t] # "FAILED"
ParallelReturned == mode = "parallel" /\ cpc = "returned"
SerialReturned == mode = "serial" /\ cpc = "returned"

\* C1: in run_parallel at most one worker at a time is inside the per-task
\* save, the worker inside holds the one lock from the file check to the end
\* of the write, and between a worker's check and its write the artifact is
\* not written by anyone else.
C1_SaveIsOneCriticalSection ==
    /\ [](\A w \in Workers : InSave(w) =>
             /\ lock = w
             /\ \A v \in Workers \ {w} : ~InSave(v))
    /\ [][\A w \in Workers :
             (wpc[w] = "write" /\ wpc'[w] = "write") => artifact' = artifact]_vars

\* a worker has passed the check and is about to write while another worker
\* with a finished run waits for the lock
C1_Witness ==
    \E w, v \in Workers : wpc[w] = "write" /\ wpc[v] = "lock"

\* C2: in run_parallel a metadata write is made under the lock of the
\* per-task saves, so no metadata write is in flight while another worker is
\* inside its task save.
C2_MetadataWriteNeverOverlapsSave ==
    \A w \in Workers : wpc[w] = "metaw" =>
        \A v \in Workers \ {w} : ~InSave(v)

\* C3: when run_parallel (with at least one worker) returns, save_metadata
\* has been called exactly once, and not before all workers were joined.
C3_MetadataOnceAfterJoin ==
    (ParallelReturned /\ nproc >= 1) => (metaCalls = 1 /\ metaEarly = 0)

\* C4: when run_parallel with worker_count >= 1 returns and no task failed,
\* every task was dequeued exactly once, is DONE, and (when output is
\* requested) its group was written exactly once and is in the artifact.
C4_EveryTaskOnce ==
    (ParallelReturned /\ nproc >= 1 /\ NoTaskFailed) =>
        \A t \in TaskIds :
            /\ dequeues[t] = 1
            /\ tstate[t] = "DONE"
            /\ ~SaveReturnsEarly(output) =>
                   (writes[t] = 1 /\ t \in artifact.groups)

\* run_parallel returned with two workers having shared two tasks, all saved
C4_Witness ==
    /\ ParallelReturned /\ nproc = 2 /\ NoTaskFailed
    /\ Cardinality(TaskIds) = 2
    /\ ~SaveReturnsEarly(output)
    /\ \A w \in Workers : wpc[w] = "done"

\* C5: from an absent artifact and with no failure, run_parallel (any
\* worker_count >= 1, any interleaving) and run_serial persist the same set
\* of groups: each of them leaves exactly one group per task id (none when
\* no output is requested), whatever the order of the writes.
C5_ParallelPersistsWhatSerialDoes ==
    ((ParallelReturned /\ nproc >= 1) \/ SerialReturned)
     /\ freshStart /\ NoTaskFailed
    => artifact.groups = (IF SaveReturnsEarly(output) THEN {} ELSE TaskIds)

\* a failure-free run_parallel on an absent artifact has returned after its
\* two workers saved one group each, the larger task id first
C5_Witness ==
    /\ ParallelReturned /\ freshStart /\ NoTaskFailed
    /\ Cardinality(artifact.groups) = 2
    /\ \E w, v \in Workers :
          /\ w # v /\ wtask[w] # None /\ wtask[v] # None
          /\ wtask[w] # wtask[v]

\* C6: when run_serial is left by an error of a task's run or save, the
\* call has not returned True, the failing task is FAILED, no task later in
\* sorted order was run or saved, no metadata was written, and every earlier
\* task is DONE with its group still in the artifact.
C6_SerialFailFast ==
    (/\ mode = "serial" /\ cpc = "raised"
     /\ result \in {"SimulationError", "RuntimeError", "ValueError"}) =>
        /\ result # "True"
        /\ tstate[tasks[sidx]] = "FAILED"
        /\ Len(started) = sidx
        /\ metaCalls = 0
        /\ \A i \in 1..Len(tasks) :
              /\ i > sidx => (tstate[tasks[i]] = "PENDING"
                              /\ writes[tasks[i]] = 0)
              /\ i < sidx => /\ tstate[tasks[i]] = "DONE"
                             /\ ~SaveReturnsEarly(output) =>
                                    tasks[i] \in artifact.groups

\* run_serial was left by the error of its second task's run, after the
\* first task was saved
C6_Witness ==
    /\ mode = "serial" /\ cpc = "raised" /\ result = "SimulationError"
    /\ sidx = 2
    /\ tasks[1] \in artifact.groups

\* C7: run_parallel returns True only when every task of the run reached
\* DONE, whatever the worker count (0 included) and whatever failed.
C7_TrueOnlyWhenAllDone ==
    (mode = "parallel" /\ result = "True") =>
        \A t \in TaskIds : tstate[t] = "DONE"

\* C8: in both modes the runs are dispatched in ascending sorted order of
\* the task ids: every dispatched task is smaller than every task dispatched
\* later or not yet dispatched, and the work queue of a run_parallel that
\* started its workers holds exactly the tasks not yet dequeued, in
\* ascending order.
C8_DispatchInSortedOrder ==
    /\ \A i, j \in 1..Len(started) :
          i < j => StrLess(started[i], started[j])
    /\ mode \in {"serial", "parallel"} =>
          \A t \in TaskIds \ Range(started) :
              \A i \in 1..Len(started) : StrLess(started[i], t)
    /\ (mode = "parallel" /\ cpc # "raised") =>
          /\ Range(tasks_to_accomplish) = TaskIds \ Range(started)
          /\ \A i, j \in 1..Len(tasks_to_accomplish) :
                i < j => StrLess(tasks_to_accomplish[i],
                                 tasks_to_accomplish[j])

\* values [2, 10]: task a.b_10 was dequeued first by one worker and a.b_2
\* second by the other
C8_Witness ==
    /\ mode = "parallel"
    /\ handler.values = <<IntV(2), IntV(10)>>
    /\ started = <<TaskId(handler.entry, IntV(10)),
                   TaskId(handler.entry, IntV(2))>>
    /\ \E w, v \in Workers :
          /\ w # v
          /\ wtask[w] = started[1]
          /\ wtask[v] = started[2]

\* C9: a per-task save to a requested output fails with an error and leaves
\* the artifact unchanged when the artifact exists, holds a group named like
\* an incoming result group and force_overwrite is false; in every other
\* case the save proceeds and the task's group is written.
C9_OverwriteGuard ==
    [][/\ (mode = "serial" /\ cpc = "s_save" /\ ~SaveReturnsEarly(output)) =>
            LET t == tasks[sidx]
            IN IF /\ artifact.exists
                  /\ artifact.groups \cap ResultGroups(t) # {}
                  /\ ~output.force_overwrite
               THEN cpc' = "raised" /\ artifact' = artifact
               ELSE /\ cpc' # "raised"
                    /\ t \in artifact'.groups
                    /\ writes'[t] = writes[t] + 1
       /\ \A w \in Workers :
            (wpc[w] = "check" /\ wpc'[w] # "check"
             /\ ~SaveReturnsEarly(output)) =>
                IF /\ artifact.exists
                   /\ artifact.groups \cap ResultGroups(wtask[w]) # {}
                   /\ ~output.force_overwrite
                THEN wpc'[w] = "crashed" /\ artifact' = artifact
                ELSE wpc'[w] = "write"
       /\ \A w \in Workers :
            (wpc[w] = "write" /\ wpc'[w] # "write") =>
                /\ wpc'[w] = "put"
                /\ wtask[w] \in artifact'.groups]_vars

\* v == w and hash(v) == hash(w): the key under which set(values) keeps v
PyKey(v) ==
    IF v.t = "str" THEN <<"str", v.s>> ELSE <<"num", v.n>>

\* len(set(values))
DistinctValues(values) ==
    Cardinality({PyKey(values[i]) : i \in 1..Len(values)})

\* C10: the number of derived tasks equals the number of distinct values:
\* distinct values never share a task id and equal values never yield two
\* tasks.
C10_OneTaskPerDistinctValue ==
    derived # <<>> => Len(derived) = DistinctValues(handler.values)

\* ------------------------------------------------- claims: configuration
Succeeded(i) == returned[i].err = "none"

\* C11: whatever configuration() calls were made and whatever the callers
\* stored into the configurations they got, self._defaults is as it was at
\* construction, no returned configuration shares a dict or list with
\* self._defaults or with another returned configuration, and a
\* configuration nobody stored into equals the one computed from the
\* defaults as constructed.
C11_ConfigurationIsAFreshCopy ==
    /\ SubSeq(heap, 1, Len(defaults)) = defaults
    /\ \A i \in 1..Len(returned) :
           Succeeded(i) =>
               /\ Reach(heap, returned[i].slot) \cap Reach(heap, Base) = {}
               /\ \A j \in 1..Len(returned) :
                      (j # i /\ Succeeded(j)) =>
                          Reach(heap, returned[i].slot)
                              \cap Reach(heap, returned[j].slot) = {}
               /\ returned[i].mutatedAt = 0 =>
                      LET e == configuration(defaults,
                                             returned[i].task)
                      IN Same(heap, returned[i].slot, e.heap, e.slot)

\* a configuration was stored into, and a configuration() call made after
\* that returned
C11_Witness ==
    /\ Len(returned) = 2
    /\ Succeeded(1) /\ returned[1].mutatedAt = 1
    /\ Succeeded(2)
    /\ handler.entry = <<"a", ".", "b">>

\* the configuration at slot c (heap h) is the defaults value at slot b with
\* the value at key_list replaced: first element of a list, else the whole
RECURSIVE ReplacedAt(_, _, _, _, _)
ReplacedAt(b, h, c, key_list, value) ==
    LET d == defaults
        ob == d[b.ref]
        oc == h[c.ref]
        i == KeyIndex(ob.parts, Head(key_list))
        sb == ob.parts[i]
        sc == oc.parts[i]
    IN /\ b.ref # 0 /\ c.ref # 0
       /\ ob.kind = "dict" /\ oc.kind = "dict"
       /\ Len(oc.parts) = Len(ob.parts)
       /\ i # 0
       /\ \A j \in 1..Len(ob.parts) :
              /\ oc.parts[j].key = ob.parts[j].key
              /\ j # i => Same(d, ob.parts[j], h, oc.parts[j])
       /\ IF Len(key_list) > 1
          THEN ReplacedAt(sb, h, sc, Tail(key_list), value)
          ELSE IF sb.ref # 0 /\ d[sb.ref].kind = "list"
          THEN /\ sc.ref # 0 /\ h[sc.ref].kind = "list"
               /\ Len(h[sc.ref].parts) = Len(d[sb.ref].parts)
               /\ h[sc.ref].parts[1] = ScalarSlot(NoKey, value)
               /\ \A j \in 2..Len(d[sb.ref].parts) :
                      Same(d, d[sb.ref].parts[j], h, h[sc.ref].parts[j])
          ELSE sc.ref = 0 /\ sc.val = value

\* C12: a configuration that configuration(task) returned is the defaults
\* with the value at the entry path replaced by the task's value - the
\* first element when the defaults hold a list there, the whole value
\* otherwise - and everything off the path equal to the defaults.
C12_OnlyTheEntryIsReplaced ==
    \A i \in 1..Len(returned) :
        (Succeeded(i) /\ returned[i].mutatedAt = 0) =>
            ReplacedAt(Base, heap, returned[i].slot, Split(handler.entry),
                       TasksOf(handler.entry, handler.values)
                           [TaskIndex(returned[i].task)].value)

\* the example: defaults {a: {b: [1, 2]}}, entry a.b, task a.b_10 gives
\* {a: {b: [10, 2]}}
C12_Witness ==
    /\ handler.defaults = "list"
    /\ handler.entry = <<"a", ".", "b">>
    /\ \E i \in 1..Len(returned) :
           /\ returned[i].task = <<"a", ".", "b", "_", "1", "0">>
           /\ Succeeded(i)
           /\ LET root == heap[returned[i].slot.ref]
                  a == heap[root.parts[1].ref]
                  b == heap[a.parts[1].ref]
              IN b = ListObj(<<ScalarSlot(NoKey, IntV(10)),
                               ScalarSlot(NoKey, IntV(2))>>)

\* C14: configuration() of a constructed handler does not fail for a task of
\* the handler, since a handler whose entry path is not in the defaults
\* cannot be constructed.
C14_KnownTaskAlwaysResolves ==
    \A i \in 1..Len(returned) :
        returned[i].task \in TaskIds =>
            returned[i].err \notin {"KeyError", "TypeError"}

\* C15: a configuration() call for a str that is no task of the handler
\* raises and returns no configuration, and run_task for such a str raises
\* with the simulation never run.
C15_UnknownTaskIsRejected ==
    /\ \A i \in 1..Len(returned) :
           returned[i].task \notin TaskIds =>
               ~Succeeded(i) /\ returned[i].slot = NoConfig
    /\ (mode = "task" /\ tasks[1] \notin TaskIds) =>
           /\ cpc = "raised"
           /\ result \in {"AssertionError", "KeyError"}
           /\ started = <<>>

\* configuration(unknown) raised KeyError and run_task(unknown) raised
C15_Witness ==
    /\ \E i \in 1..Len(returned) :
           returned[i].task = UnknownTask /\ returned[i].err = "KeyError"
    /\ mode = "task" /\ tasks = <<UnknownTask>> /\ cpc = "raised"

\* ------------------------------------------------------- claims: the runs
\* the exceptions of a configuration or naming error
ConfigErrors == {"KeyError", "TypeError", "IndexError", "ValueError",
                 "AssertionError"}

\* C13: when run_serial or run_parallel is left by a configuration or naming
\* error (entry path not in the defaults, output format not supported), no
\* run of the simulation was started before the error.
C13_ConfigErrorsBeforeAnyRun ==
    (mode \in {"serial", "parallel"} /\ result \in ConfigErrors) =>
        started = <<>>

\* C17: with no output requested (format None) file_name is None, and no
\* per-task save of run_serial, run_parallel or run_task raises, reaches
\* module.save or creates the artifact: each save step ends with the task
\* DONE and the artifact as it was.
C17_NoOutputSavesNothing ==
    /\ [](output.format = None =>
             /\ output.file_name = None
             /\ artifact = NoArtifact
             /\ \A t \in TaskIds : writes[t] = 0
             /\ \A w \in Workers : wpc[w] # "write"
             /\ result \notin {"RuntimeError", "ValueError"})
    /\ [][output.format = None =>
             /\ (cpc \in {"s_save", "k_save"} /\ cpc' # cpc) =>
                    (cpc' # "raised" /\ tstate'[tasks[sidx]] = "DONE")
             /\ \A w \in Workers :
                    (wpc[w] = "check" /\ wpc'[w] # "check") =>
                        (wpc'[w] = "put" /\ tstate'[wtask[w]] = "DONE")]_vars

\* no output requested: run_parallel returned with two tasks DONE, after
\* both workers went through the save, and nothing was written
C17_Witness ==
    /\ output.format = None
    /\ ParallelReturned
    /\ Cardinality(TaskIds) = 2
    /\ \A t \in TaskIds : tstate[t] = "DONE"
    /\ \E w, v \in Workers : w # v /\ wtask[w] # None /\ wtask[v] # None
                              /\ wtask[w] # wtask[v]
    /\ ~artifact.exists

\* a step of a call in progress (every step taken where a call may begin
\* begins one)
InCall == ~CallAllowed

\* C18: within one call a task goes PENDING -> RUNNING -> DONE or FAILED and
\* takes no other step: it is dispatched at most once, a task that is DONE
\* or FAILED is not on the work queue, is not run again and is not saved
\* again, and a group is written only by the step that takes a RUNNING task
\* to DONE.
C18_TaskLifeCycle ==
    /\ [](/\ \A i, j \in 1..Len(started) : i # j => started[i] # started[j]
          /\ \A t \in TaskIds :
                 /\ dequeues[t] <= 1
                 /\ writes[t] <= 1
                 /\ writes[t] = 1 => tstate[t] = "DONE"
                 /\ tstate[t] \in {"DONE", "FAILED"} =>
                        t \notin Range(tasks_to_accomplish))
    /\ [][InCall =>
             \A t \in TaskIds :
                 /\ tstate'[t] # tstate[t] =>
                        \/ tstate[t] = "PENDING" /\ tstate'[t] = "RUNNING"
                        \/ tstate[t] = "RUNNING"
                              /\ tstate'[t] \in {"DONE", "FAILED"}
                 /\ writes'[t] # writes[t] =>
                        tstate[t] = "RUNNING" /\ tstate'[t] = "DONE"
                 /\ Len(started') > Len(started) =>
                        tstate[started'[Len(started')]] = "PENDING"]_vars

\* run_parallel returned with one task DONE and saved and one FAILED
C18_Witness ==
    /\ ParallelReturned
    /\ \E t, u \in TaskIds :
           /\ tstate[t] = "DONE" /\ writes[t] = 1
           /\ tstate[u] = "FAILED" /\ dequeues[u] = 1

\* ------------------------------------------------ claims: _parse_output
EndsWith(seq, suffix) ==
    /\ Len(suffix) <= Len(seq)
    /\ SubSeq(seq, Len(seq) - Len(suffix) + 1, Len(seq)) = suffix

\* the explicit name ends with the extension e, after a last path component
\* that is more than "."s
CarriesExtension(fname, e) ==
    /\ fname # None
    /\ EndsWith(fname, e)
    /\ LET stem == SubSeq(fname, 1, Len(fname) - Len(e))
       IN \E k \in (LastIndexOf(stem, "/") + 1)..Len(stem) : stem[k] # "."

Dots(k) == [i \in 1..k |-> "."]

\* C16: of a _parse_output call that returned: a supported extension of the
\* explicit name is the format, whatever was declared (declared "csv" with
\* name "run.h5" gives format "h5" and file_name "run.h5"); without one, a
\* declared non-empty format is kept less its leading "."s, an empty or
\* undeclared format gives "h5" and a declared None gives no format and no
\* file_name; and whenever there is a format, file_name is
\* name + "." + format.
C16_FormatPrecedence ==
    LET out == parse.res.out
        declared == IF parse.dct.format = Absent THEN <<>>
                    ELSE parse.dct.format
    IN parse.res.err = "none" =>
        /\ \A e \in supported :
               CarriesExtension(parse.fname, e) => out.format = Tail(e)
        /\ (\A e \in supported : ~CarriesExtension(parse.fname, e)) =>
               /\ declared \notin {None, <<>>} =>
                      /\ out.format = <<>> \/ Head(out.format) # "."
                      /\ \E k \in 0..Len(declared) :
                             declared = Dots(k) \o out.format
               /\ declared = <<>> => out.format = <<"h5">>
               /\ declared = None =>
                      out.format = None /\ out.file_name = None
        /\ out.format # None =>
               out.file_name = out.name \o <<".">> \o out.format
        /\ (parse.dct.format = <<"csv">>
              /\ parse.fname = <<"run", ".", "h5">>) =>
               /\ out.format = <<"h5">>
               /\ out.file_name = <<"run", ".", "h5">>

\* the call with declared format "csv" and name "run.h5" returned
C16_Witness ==
    /\ parse.res.err = "none"
    /\ parse.dct.format = <<"csv">>
    /\ parse.fname = <<"run", ".", "h5">>
    /\ parse.res.out.format = <<"h5">>

\* --------------------------------------------- claims: failure, termination
FailedTasks == {t \in TaskIds : tstate[t] = "FAILED"}
Saved(t) ==
    /\ tstate[t] = "DONE"
    /\ ~SaveReturnsEarly(output) => t \in artifact.groups

\* C19: in a run_parallel with two or more workers, a worker ended by an
\* error holds no lock, and when one task failed the run still ends with
\* every other task run and saved.
C19_FailureIsConfined ==
    /\ [](\A w \in Workers : wpc[w] = "crashed" => lock # w)
    /\ (mode = "parallel" /\ cpc = "join" /\ nproc >= 2) ~>
           (/\ ParallelReturned
            /\ lock = 0
            /\ Cardinality(FailedTasks) = 1 =>
                   \A t \in TaskIds \ FailedTasks : Saved(t))

\* two workers: one ended by the error of a save refused under the lock,
\* the other ran and saved the other task and ended normally
C19_Witness ==
    /\ ParallelReturned /\ nproc = 2
    /\ Cardinality(FailedTasks) = 1
    /\ Cardinality(TaskIds) = 2
    /\ \E w, v \in Workers :
           /\ wpc[w] = "crashed" /\ wtask[w] \in FailedTasks
           /\ wtask[w] \in artifact.groups /\ writes[wtask[w]] = 0
           /\ wpc[v] = "done" /\ writes[wtask[v]] = 1

C21_WorkersEndNormally ==
    \A w \in Workers :
        wpc[w] = "crashed" =>
            (wtask[w] # None /\ tstate[wtask[w]] = "FAILED")
====
